---- MODULE Spec2Model ----
(***************************************************************************)
(* dmpjs/linkedlist: LinkedListItem (src/src/linked_list_item.ts) and      *)
(* LinkedList (src/unnamed/part_001).                                      *)
(*                                                                         *)
(* Items live in a heap indexed by Nodes; a reference is an index          *)
(* and `undefined` is NoItem.  An item's unlinkCleanup field holds the id  *)
(* of the LinkedList whose bound cleanup closure it carries, or NoCleanup. *)
(***************************************************************************)
EXTENDS Integers, Sequences, FiniteSets, TLC

MaxNodes == 3      \* items ever constructed in one behaviour
MaxArgs  == 2      \* values passed to one push / unshift / constructor call
MaxItems == 4      \* items in a behaviour where the caller constructs items

NoItem    == 0     \* an `undefined` item reference
NoCleanup == 0     \* an `undefined` unlinkCleanup
Undefined == 0     \* an `undefined` return value

\* The heap: room for the items of a list, of a second list and of the lists
\* made from both.
Nodes  == 1..(5 * MaxNodes)
\* The type T of the values.  The list only ever compares a value with ===
\* against the one value a call is given, so two values show every case.
Values == {1, 2}
Lists  == {1, 2, 3, 4}
list   == 1        \* the LinkedList the callers operate on
other  == 2        \* a second LinkedList, made by the constructor
made   == 3        \* the LinkedList a call of concat, filter or map returns
again  == 4        \* the LinkedList a call on that list returns

ArgSeqs == UNION {[1..k -> Values] : k \in 0..MaxArgs}

VARIABLES
  value,          \* LinkedListItem.value
  behind,         \* LinkedListItem.behind
  before,         \* LinkedListItem.before
  unlinkCleanup,  \* LinkedListItem.unlinkCleanup
  head,           \* LinkedList.head
  tail,           \* LinkedList.tail
  length,         \* LinkedList.length
  alloc,          \* number of items constructed so far
  cleanups,       \* per item, the calls of its unlinkCleanup since it got it
  hang,           \* a call entered a loop that never ends
  error,          \* the last call threw
  op,             \* name of the last call
  generator,      \* the generator suspended at a yield: "keys", "entries"
                  \* or "none"
  genCurrent,     \* the variable current of that generator
  yielded,        \* the items the generator has yielded since it was made
  atStart         \* the items of the list when the generator was started

vars == <<value, behind, before, unlinkCleanup, head, tail, length, alloc,
          cleanups, hang, error, op, generator, genCurrent, yielded,
          atStart>>

\* The program state as one record, so that methods are operators on it.
St == [value |-> value, behind |-> behind, before |-> before,
       unlinkCleanup |-> unlinkCleanup, head |-> head, tail |-> tail,
       length |-> length, alloc |-> alloc, cleanups |-> cleanups,
       hang |-> hang]

EmptySt == [value |-> [n \in Nodes |-> Undefined],
            behind |-> [n \in Nodes |-> NoItem],
            before |-> [n \in Nodes |-> NoItem],
            unlinkCleanup |-> [n \in Nodes |-> NoCleanup],
            head |-> [l \in Lists |-> NoItem],
            tail |-> [l \in Lists |-> NoItem],
            length |-> [l \in Lists |-> 0],
            alloc |-> 0, cleanups |-> [n \in Nodes |-> 0], hang |-> FALSE]

-----------------------------------------------------------------------------
(* LinkedListItem *)

\* new LinkedListItem(v, cleanup): the next free heap slot
newItem(s, v, cleanup) ==
  [s EXCEPT !.alloc = s.alloc + 1,
            !.value[s.alloc + 1] = v,
            !.behind[s.alloc + 1] = NoItem,
            !.before[s.alloc + 1] = NoItem,
            !.unlinkCleanup[s.alloc + 1] = cleanup]

\* insertBefore that takes the callback of b whatever this carries
insertBefore_AlwaysInherits(s, this, b) ==
  LET s1 == [s EXCEPT !.before[this] = b]
  IN  [s1 EXCEPT !.unlinkCleanup[this] = s1.unlinkCleanup[b],
                 !.cleanups[this] =
                   IF s1.unlinkCleanup[b] = NoCleanup THEN @ ELSE 0]

\* this.insertBefore(b)
insertBefore(s, this, b) ==
  LET s1 == [s EXCEPT !.before[this] = b]
  IN  IF s1.unlinkCleanup[this] = NoCleanup
      THEN [s1 EXCEPT !.unlinkCleanup[this] = s1.unlinkCleanup[b],
                      !.cleanups[this] =
                        IF s1.unlinkCleanup[b] = NoCleanup THEN @ ELSE 0]
      ELSE s1

\* while (itemChainEnd.behind) itemChainEnd = itemChainEnd.behind;
\* NoItem when the walk never ends (the chain is cyclic)
RECURSIVE itemChainEnd(_, _, _)
itemChainEnd(s, n, seen) ==
  IF s.behind[n] = NoItem THEN n
  ELSE IF s.behind[n] \in seen THEN NoItem
  ELSE itemChainEnd(s, s.behind[n], seen \cup {s.behind[n]})

\* insertBehind without item.insertBefore(this): item gets no back link
RECURSIVE insertBehind_NoBackLink(_, _, _)
insertBehind_NoBackLink(s, this, item) ==
  IF s.behind[this] # NoItem
  THEN LET e == itemChainEnd(s, item, {item})
       IN  IF e = NoItem THEN [s EXCEPT !.hang = TRUE]
           ELSE LET s2 == insertBefore(s, s.behind[this], e)
                    s3 == insertBehind_NoBackLink(s2, e, s2.behind[this])
                IN  IF s3.hang THEN s3
                    ELSE [s3 EXCEPT !.behind[this] = item]
  ELSE [s EXCEPT !.behind[this] = item]

\* insertBehind that links the old successor behind item, not behind the
\* end of item's chain
RECURSIVE insertBehind_NoChainWalk(_, _, _)
insertBehind_NoChainWalk(s, this, item) ==
  LET s1 == insertBefore(s, item, this)
  IN  IF s1.behind[this] # NoItem
      THEN LET s2 == insertBefore(s1, s1.behind[this], item)
           IN  [s2 EXCEPT !.behind[item] = s2.behind[this],
                          !.behind[this] = item]
      ELSE [s1 EXCEPT !.behind[this] = item]

\* insertBehind that tells the list of this about the item: the list counts
\* it and moves its tail when this was the tail
RECURSIVE insertBehind_TellsList(_, _, _)
insertBehind_TellsList(s, this, item) ==
  LET s1 == insertBefore(s, item, this)
      l  == s1.unlinkCleanup[this]
      s4 == IF l = NoCleanup THEN s1
            ELSE [s1 EXCEPT !.length[l] = @ + 1,
                            !.tail[l] = IF @ = this THEN item ELSE @]
  IN  IF s4.behind[this] # NoItem
      THEN LET e == itemChainEnd(s4, item, {item})
           IN  IF e = NoItem THEN [s4 EXCEPT !.hang = TRUE]
               ELSE LET s2 == insertBefore(s4, s4.behind[this], e)
                        s3 == [s2 EXCEPT !.behind[e] = s2.behind[this]]
                    IN  [s3 EXCEPT !.behind[this] = item]
      ELSE [s4 EXCEPT !.behind[this] = item]

\* this.insertBehind(item)
RECURSIVE insertBehind(_, _, _)
insertBehind(s, this, item) ==
  LET s1 == insertBefore(s, item, this)
  IN  IF s1.behind[this] # NoItem
      THEN LET e == itemChainEnd(s1, item, {item})
           IN  IF e = NoItem THEN [s1 EXCEPT !.hang = TRUE]
               ELSE LET s2 == insertBefore(s1, s1.behind[this], e)
                        s3 == insertBehind(s2, e, s2.behind[this])
                    IN  IF s3.hang THEN s3
                        ELSE [s3 EXCEPT !.behind[this] = item]
      ELSE [s1 EXCEPT !.behind[this] = item]

\* unlinkCleanup without this.length--
listUnlinkCleanup_NoDecrement(s, l, item) ==
  LET s1 == IF s.head[l] = item
            THEN [s EXCEPT !.head[l] = s.behind[s.head[l]]]
            ELSE s
      s2 == IF s1.tail[l] = item
            THEN [s1 EXCEPT !.tail[l] = s1.before[s1.tail[l]]]
            ELSE s1
  IN  [s2 EXCEPT !.cleanups[item] = @ + 1]

\* unlinkCleanup that does not move tail
listUnlinkCleanup_KeepsTail(s, l, item) ==
  LET s1 == IF s.head[l] = item
            THEN [s EXCEPT !.head[l] = s.behind[s.head[l]]]
            ELSE s
  IN  [s1 EXCEPT !.length[l] = s1.length[l] - 1,
                 !.cleanups[item] = @ + 1]

\* LinkedList.unlinkCleanup, the closure of list l, called with item
listUnlinkCleanup(s, l, item) ==
  LET s1 == IF s.head[l] = item
            THEN [s EXCEPT !.head[l] = s.behind[s.head[l]]]
            ELSE s
      s2 == IF s1.tail[l] = item
            THEN [s1 EXCEPT !.tail[l] = s1.before[s1.tail[l]]]
            ELSE s1
  IN  [s2 EXCEPT !.length[l] = s2.length[l] - 1,
                 !.cleanups[item] = @ + 1]

\* unlink without this.before.behind = this.behind
unlink_KeepsForwardLink(s, this, unchain) ==
  LET s2 == IF s.behind[this] # NoItem
            THEN [s EXCEPT !.before[s.behind[this]] = s.before[this]]
            ELSE s
      s3 == IF s2.unlinkCleanup[this] # NoCleanup
            THEN listUnlinkCleanup(s2, s2.unlinkCleanup[this], this)
            ELSE s2
      s4 == [s3 EXCEPT !.unlinkCleanup[this] = NoCleanup]
  IN  IF unchain
      THEN [s4 EXCEPT !.before[this] = NoItem, !.behind[this] = NoItem]
      ELSE s4

\* unlink that clears before and behind whatever unchain is
unlink_AlwaysUnchains(s, this, unchain) ==
  LET s1 == IF s.before[this] # NoItem
            THEN [s EXCEPT !.behind[s.before[this]] = s.behind[this]]
            ELSE s
      s2 == IF s1.behind[this] # NoItem
            THEN [s1 EXCEPT !.before[s1.behind[this]] = s1.before[this]]
            ELSE s1
      s3 == IF s2.unlinkCleanup[this] # NoCleanup
            THEN listUnlinkCleanup(s2, s2.unlinkCleanup[this], this)
            ELSE s2
      s4 == [s3 EXCEPT !.unlinkCleanup[this] = NoCleanup]
  IN  [s4 EXCEPT !.before[this] = NoItem, !.behind[this] = NoItem]

\* unlink without this.unlinkCleanup = undefined
unlink_KeepsCleanup(s, this, unchain) ==
  LET s1 == IF s.before[this] # NoItem
            THEN [s EXCEPT !.behind[s.before[this]] = s.behind[this]]
            ELSE s
      s2 == IF s1.behind[this] # NoItem
            THEN [s1 EXCEPT !.before[s1.behind[this]] = s1.before[this]]
            ELSE s1
      s3 == IF s2.unlinkCleanup[this] # NoCleanup
            THEN listUnlinkCleanup(s2, s2.unlinkCleanup[this], this)
            ELSE s2
  IN  IF unchain
      THEN [s3 EXCEPT !.before[this] = NoItem, !.behind[this] = NoItem]
      ELSE s3

\* unlink that clears the item's own links before it calls the callback
unlink_UnchainsFirst(s, this, unchain) ==
  LET s1 == IF s.before[this] # NoItem
            THEN [s EXCEPT !.behind[s.before[this]] = s.behind[this]]
            ELSE s
      s2 == IF s1.behind[this] # NoItem
            THEN [s1 EXCEPT !.before[s1.behind[this]] = s1.before[this]]
            ELSE s1
      s3 == IF unchain
            THEN [s2 EXCEPT !.before[this] = NoItem, !.behind[this] = NoItem]
            ELSE s2
      s4 == IF s3.unlinkCleanup[this] # NoCleanup
            THEN listUnlinkCleanup(s3, s3.unlinkCleanup[this], this)
            ELSE s3
  IN  [s4 EXCEPT !.unlinkCleanup[this] = NoCleanup]

\* this.unlink(unchain)
unlink(s, this, unchain) ==
  LET s1 == IF s.before[this] # NoItem
            THEN [s EXCEPT !.behind[s.before[this]] = s.behind[this]]
            ELSE s
      s2 == IF s1.behind[this] # NoItem
            THEN [s1 EXCEPT !.before[s1.behind[this]] = s1.before[this]]
            ELSE s1
      s3 == IF s2.unlinkCleanup[this] # NoCleanup
            THEN listUnlinkCleanup(s2, s2.unlinkCleanup[this], this)
            ELSE s2
      s4 == [s3 EXCEPT !.unlinkCleanup[this] = NoCleanup]
  IN  IF unchain
      THEN [s4 EXCEPT !.before[this] = NoItem, !.behind[this] = NoItem]
      ELSE s4

-----------------------------------------------------------------------------
(* LinkedList *)

\* the loop of push without this.tail = item
pushOne_KeepsTail(s, l, v) ==
  LET s1   == newItem(s, v, l)
      item == s1.alloc
      s2   == IF s1.head[l] = NoItem \/ s1.tail[l] = NoItem
              THEN [s1 EXCEPT !.head[l] = item, !.tail[l] = item]
              ELSE insertBehind(s1, s1.tail[l], item)
  IN  [s2 EXCEPT !.length[l] = s2.length[l] + 1]

\* one round of the loop of push
pushOne(s, l, v) ==
  LET s1   == newItem(s, v, l)
      item == s1.alloc
      s2   == IF s1.head[l] = NoItem \/ s1.tail[l] = NoItem
              THEN [s1 EXCEPT !.head[l] = item, !.tail[l] = item]
              ELSE [insertBehind(s1, s1.tail[l], item) EXCEPT !.tail[l] = item]
  IN  [s2 EXCEPT !.length[l] = s2.length[l] + 1]

\* push(...values)
RECURSIVE push(_, _, _)
push(s, l, values) ==
  IF values = <<>> THEN [s |-> s, ret |-> s.length[l]]
  ELSE push(pushOne(s, l, Head(values)), l, Tail(values))

\* the loop of unshift linking the new item behind head
unshiftOne_BehindHead(s, l, v) ==
  LET s1   == newItem(s, v, l)
      item == s1.alloc
      s2   == IF s1.tail[l] = NoItem \/ s1.head[l] = NoItem
              THEN [s1 EXCEPT !.head[l] = item, !.tail[l] = item]
              ELSE [insertBehind(s1, s1.head[l], item) EXCEPT !.head[l] = item]
  IN  [s2 EXCEPT !.length[l] = s2.length[l] + 1]

\* one round of the loop of unshift
unshiftOne(s, l, v) ==
  LET s1   == newItem(s, v, l)
      item == s1.alloc
      s2   == IF s1.tail[l] = NoItem \/ s1.head[l] = NoItem
              THEN [s1 EXCEPT !.head[l] = item, !.tail[l] = item]
              ELSE [insertBehind(s1, item, s1.head[l]) EXCEPT !.head[l] = item]
  IN  [s2 EXCEPT !.length[l] = s2.length[l] + 1]

\* unshift that takes its values from the last to the first, so that they
\* come to stand in the order of the arguments
RECURSIVE unshift_KeepsOrder(_, _, _)
unshift_KeepsOrder(s, l, values) ==
  IF values = <<>> THEN [s |-> s, ret |-> s.length[l]]
  ELSE unshift_KeepsOrder(unshiftOne(s, l, values[Len(values)]), l,
                          SubSeq(values, 1, Len(values) - 1))

\* unshift(...values)
RECURSIVE unshift(_, _, _)
unshift(s, l, values) ==
  IF values = <<>> THEN [s |-> s, ret |-> s.length[l]]
  ELSE unshift(unshiftOne(s, l, Head(values)), l, Tail(values))

\* pop returning the value of the tail left after unlink
pop_ReadsAfterUnlink(s, l) ==
  IF s.tail[l] = NoItem THEN [s |-> s, ret |-> Undefined]
  ELSE LET s1 == unlink(s, s.tail[l], FALSE)
       IN  [s |-> s1,
            ret |-> IF s1.tail[l] = NoItem THEN Undefined
                    ELSE s1.value[s1.tail[l]]]

\* pop()
pop(s, l) ==
  IF s.tail[l] = NoItem THEN [s |-> s, ret |-> Undefined]
  ELSE [s |-> unlink(s, s.tail[l], FALSE), ret |-> s.value[s.tail[l]]]

\* shift()
shift(s, l) ==
  IF s.head[l] = NoItem THEN [s |-> s, ret |-> Undefined]
  ELSE [s |-> unlink(s, s.head[l], FALSE), ret |-> s.value[s.head[l]]]

\* keys(): the item the generator yields after current
keys(s, current) == s.behind[current]

\* the loop of remove without the return after unlink
RECURSIVE removeFrom_NoReturn(_, _, _, _)
removeFrom_NoReturn(s, current, v, seen) ==
  IF current = NoItem THEN [s |-> s, ret |-> FALSE]
  ELSE LET m  == s.value[current] = v
           s1 == IF m THEN unlink(s, current, FALSE) ELSE s
           r  == removeFrom_NoReturn(s1, keys(s1, current), v, seen)
       IN  [s |-> r.s, ret |-> m \/ r.ret]

\* the loop of remove over keys(), from current on; seen are the items
\* already yielded without a match
RECURSIVE removeFrom(_, _, _, _)
removeFrom(s, current, v, seen) ==
  IF current = NoItem THEN [s |-> s, ret |-> FALSE]
  ELSE IF s.value[current] = v
       THEN [s |-> unlink(s, current, FALSE), ret |-> TRUE]
  ELSE IF keys(s, current) \in seen
       THEN [s |-> [s EXCEPT !.hang = TRUE], ret |-> FALSE]
  ELSE removeFrom(s, keys(s, current), v, seen \cup {keys(s, current)})

\* remove(value)
remove(s, l, v) == removeFrom(s, s.head[l], v, {s.head[l]} \ {NoItem})

\* the loop of removeAllOccurrences calling unlink(true)
RECURSIVE removeAllFrom_Unchains(_, _, _, _, _)
removeAllFrom_Unchains(s, current, v, found, seen) ==
  IF current = NoItem THEN [s |-> s, ret |-> found]
  ELSE LET m   == s.value[current] = v
           s1  == IF m THEN unlink(s, current, TRUE) ELSE s
           nxt == keys(s1, current)
       IN  IF <<s1, nxt>> \in seen
           THEN [s |-> [s1 EXCEPT !.hang = TRUE], ret |-> found]
           ELSE removeAllFrom_Unchains(s1, nxt, v, found \/ m,
                                       seen \cup {<<s1, nxt>>})

\* the loop of removeAllOccurrences over keys(), from current on; seen are
\* the (state, cursor) pairs the loop has been in
RECURSIVE removeAllFrom(_, _, _, _, _)
removeAllFrom(s, current, v, found, seen) ==
  IF current = NoItem THEN [s |-> s, ret |-> found]
  ELSE LET m   == s.value[current] = v
           s1  == IF m THEN unlink(s, current, FALSE) ELSE s
           nxt == keys(s1, current)
       IN  IF <<s1, nxt>> \in seen
           THEN [s |-> [s1 EXCEPT !.hang = TRUE], ret |-> found]
           ELSE removeAllFrom(s1, nxt, v, found \/ m, seen \cup {<<s1, nxt>>})

\* removeAllOccurrences(value)
removeAllOccurrences(s, l, v) ==
  removeAllFrom(s, s.head[l], v, FALSE, {<<s, s.head[l]>>})

\* the loop of clear calling unlink() without unchain
RECURSIVE clearLoop_NoUnchain(_, _, _)
clearLoop_NoUnchain(s, l, seen) ==
  IF s.head[l] = NoItem THEN s
  ELSE LET s1 == unlink(s, s.head[l], FALSE)
       IN  IF s1 \in seen THEN [s1 EXCEPT !.hang = TRUE]
           ELSE clearLoop_NoUnchain(s1, l, seen \cup {s1})

\* while (this.head) this.head.unlink(true); seen are the states the loop
\* has been in
RECURSIVE clearLoop(_, _, _)
clearLoop(s, l, seen) ==
  IF s.head[l] = NoItem THEN s
  ELSE LET s1 == unlink(s, s.head[l], TRUE)
       IN  IF s1 \in seen THEN [s1 EXCEPT !.hang = TRUE]
           ELSE clearLoop(s1, l, seen \cup {s1})

\* clear that resets head and length and leaves tail
clear_KeepsTail(s, l, unchain) ==
  LET s1 == IF unchain THEN clearLoop(s, l, {s}) ELSE s
  IN  IF s1.hang THEN s1
      ELSE [s1 EXCEPT !.head[l] = NoItem, !.length[l] = 0]

\* clear that unchains every item whatever its argument
clear_AlwaysUnchains(s, l, unchain) ==
  LET s1 == clearLoop(s, l, {s})
  IN  IF s1.hang THEN s1
      ELSE [s1 EXCEPT !.head[l] = NoItem, !.tail[l] = NoItem, !.length[l] = 0]

\* clear(unchain)
clear(s, l, unchain) ==
  LET s1 == IF unchain THEN clearLoop(s, l, {s}) ELSE s
  IN  IF s1.hang THEN s1
      ELSE [s1 EXCEPT !.head[l] = NoItem, !.tail[l] = NoItem, !.length[l] = 0]

\* new LinkedList(values)
constructor(s, l, values) == push(s, l, values).s

\* A seed that is falsy in JavaScript without being undefined (0, "", false,
\* null, NaN): a value apart from the list's values and from Undefined.
FalsySeed == 3

\* the initialValue arguments of reduce and reduceRight; Undefined is the
\* call without one
Seeds == {Undefined, FalsySeed} \cup Values

\* !x
Falsy(x) == x \in {Undefined, FalsySeed}

\* The callback of reduce and reduceRight is any function: the model takes the
\* free one, whose result records the accumulator and the value it was given.
\* An accumulator is the sequence <<x>> for a plain x, grown by each call.
callback(accumulator, currentValue) == Append(accumulator, currentValue)

\* what a reading call gives back: its value, the number of calls of the
\* callback, whether it threw, whether it never returns
Returned(r, c) == [ret |-> r, calls |-> c, threw |-> FALSE, hang |-> FALSE]

\* do { initialValue = callback(initialValue, current.value, ...);
\*      current = current[link] } while (current)
RECURSIVE reduceLoop(_, _, _, _, _, _)
reduceLoop(s, link, current, initialValue, calls, seen) ==
  LET acc == callback(initialValue, s.value[current])
      nxt == link[current]
  IN  IF nxt = NoItem THEN Returned(acc, calls + 1)
      ELSE IF nxt \in seen
      THEN [ret |-> acc, calls |-> calls + 1, threw |-> FALSE, hang |-> TRUE]
      ELSE reduceLoop(s, link, nxt, acc, calls + 1, seen \cup {nxt})

\* reduceFrom with the first item taken as the accumulator and visited again
reduceFrom_VisitsFirstTwice(s, first, link, initialValue) ==
  IF first = NoItem
  THEN IF Falsy(initialValue)
       THEN [ret |-> <<>>, calls |-> 0, threw |-> TRUE, hang |-> FALSE]
       ELSE Returned(<<initialValue>>, 0)
  ELSE IF initialValue = Undefined
  THEN IF link[first] = NoItem
       THEN Returned(<<s.value[first]>>, 0)
       ELSE reduceLoop(s, link, first, <<s.value[first]>>, 0, {first})
  ELSE reduceLoop(s, link, first, <<initialValue>>, 0, {first})

\* the body shared by reduce (first = head, link = behind) and reduceRight
\* (first = tail, link = before)
reduceFrom(s, first, link, initialValue) ==
  IF first = NoItem
  THEN IF Falsy(initialValue)
       THEN [ret |-> <<>>, calls |-> 0, threw |-> TRUE, hang |-> FALSE]
       ELSE Returned(<<initialValue>>, 0)
  ELSE IF initialValue = Undefined
  THEN IF link[first] = NoItem
       THEN Returned(<<s.value[first]>>, 0)
       ELSE reduceLoop(s, link, link[first], <<s.value[first]>>, 0,
                       {first, link[first]})
  ELSE reduceLoop(s, link, first, <<initialValue>>, 0, {first})

\* LinkedList.reduce(callback, initialValue)
reduce(s, l, initialValue) == reduceFrom(s, s.head[l], s.behind, initialValue)

\* LinkedList.reduceRight(callback, initialValue)
reduceRight(s, l, initialValue) ==
  reduceFrom(s, s.tail[l], s.before, initialValue)


\* the fromIndex arguments: whole numbers on both sides of every list
Indices == (0 - (MaxNodes + 1))..(MaxNodes + 1)

\* while (current && index--) current = current.behind
RECURSIVE forward(_, _, _)
forward(s, current, index) ==
  IF current = NoItem \/ index = 0 THEN current
  ELSE forward(s, s.behind[current], index - 1)

\* while (current && ++index) current = current.before
RECURSIVE backward(_, _, _)
backward(s, current, index) ==
  IF current = NoItem \/ index + 1 = 0 THEN current
  ELSE backward(s, s.before[current], index + 1)

\* getItemByIndex that stops at the last item when the index runs off the list
getItemByIndex_Clamps(s, l, index) ==
  IF s.head[l] = NoItem THEN NoItem
  ELSE IF index > 0
  THEN LET current == forward(s, s.head[l], index)
       IN  IF current = NoItem THEN s.tail[l] ELSE current
  ELSE IF index < 0
  THEN LET current == backward(s, s.tail[l], index)
       IN  IF current = NoItem THEN s.head[l] ELSE current
  ELSE s.head[l]

\* getItemByIndex as its comment has it: a negative index counts from
\* length - 1 + index
getItemByIndex_CountsFromLast(s, l, index) ==
  IF s.head[l] = NoItem THEN NoItem
  ELSE IF index > 0 THEN forward(s, s.head[l], index)
  ELSE IF index < 0 THEN backward(s, s.tail[l], index - 1)
  ELSE s.head[l]

\* getItemByIndex(index)
getItemByIndex(s, l, index) ==
  IF s.head[l] = NoItem THEN NoItem
  ELSE IF index > 0 THEN forward(s, s.head[l], index)
  ELSE IF index < 0 THEN backward(s, s.tail[l], index)
  ELSE s.head[l]

\* while (current) { if (current.value === v) return current;
\*                   current = current[link] }  return
RECURSIVE find(_, _, _, _, _)
find(s, link, current, v, seen) ==
  IF current = NoItem THEN Returned(NoItem, 0)
  ELSE IF s.value[current] = v THEN Returned(current, 0)
  ELSE IF link[current] \in seen
  THEN [ret |-> NoItem, calls |-> 0, threw |-> FALSE, hang |-> TRUE]
  ELSE find(s, link, link[current], v, seen \cup {link[current]})

\* itemOf(searchedValue, fromIndex)
itemOf(s, l, searchedValue, fromIndex) ==
  LET current == getItemByIndex(s, l, fromIndex)
  IN  find(s, s.behind, current, searchedValue, {current})

\* lastItemOf that searches towards the tail
lastItemOf_Forward(s, l, searchedValue, fromIndex) ==
  LET current == getItemByIndex(s, l, fromIndex)
  IN  find(s, s.behind, current, searchedValue, {current})

\* lastItemOf(searchedValue, fromIndex)
lastItemOf(s, l, searchedValue, fromIndex) ==
  LET current == getItemByIndex(s, l, fromIndex)
  IN  find(s, s.before, current, searchedValue, {current})

\* while (current) { if (current.value === value) return true;
\*                   current = current.behind }  return false
RECURSIVE includesFrom(_, _, _, _)
includesFrom(s, current, v, seen) ==
  IF current = NoItem THEN Returned(FALSE, 0)
  ELSE IF s.value[current] = v THEN Returned(TRUE, 0)
  ELSE IF s.behind[current] \in seen
  THEN [ret |-> FALSE, calls |-> 0, threw |-> FALSE, hang |-> TRUE]
  ELSE includesFrom(s, s.behind[current], v, seen \cup {s.behind[current]})

\* includes that searches the whole list whatever fromIndex is
includes_IgnoresFromIndex(s, l, v, fromIndex) ==
  includesFrom(s, s.head[l], v, {s.head[l]})

\* includes(value, fromIndex)
includes(s, l, v, fromIndex) ==
  LET current == getItemByIndex(s, l, fromIndex)
  IN  includesFrom(s, current, v, {current})

\* for (const value of values.values()) this.push(value), the generator
\* being at current: the loop of the constructor given a LinkedList
RECURSIVE pushEach(_, _, _, _)
pushEach(s, l, current, seen) ==
  IF current = NoItem THEN s
  ELSE IF current \in seen THEN [s EXCEPT !.hang = TRUE]
  ELSE LET s1 == pushOne(s, l, s.value[current])
       IN  pushEach(s1, l, s1.behind[current], seen \cup {current})

\* new LinkedList(values) with a LinkedList that links the items of the list
\* it is given instead of making items of its own
constructorOf_SharesItems(s, l, source) ==
  [s EXCEPT !.head[l] = s.head[source], !.tail[l] = s.tail[source],
            !.length[l] = s.length[source]]

\* new LinkedList(values) with values a LinkedList, the list source
constructorOf(s, l, source) == pushEach(s, l, s.head[source], {})

\* [...other.values()]: the values the generator yields from current on
RECURSIVE spread(_, _, _)
spread(s, current, seen) ==
  IF current = NoItem \/ current \in seen THEN <<>>
  ELSE <<s.value[current]>> \o spread(s, s.behind[current], seen \cup {current})

\* An argument of concat that is an array: a value that is not a LinkedList,
\* here the array [1, 2].
AnArray == 12

\* The arguments of concat: a LinkedList (isList, x the list) or any other
\* value x.
Others ==
  [isList : {TRUE}, x : {list, other}]
    \cup [isList : {FALSE}, x : Values \cup {AnArray}]

OtherSeqs == UNION {[1..k -> Others] : k \in 0..MaxArgs}

\* the loop of concat that spreads an array as it spreads a LinkedList
RECURSIVE concatLoop_SpreadsArrays(_, _, _)
concatLoop_SpreadsArrays(s, newList, others) ==
  IF others = <<>> THEN s
  ELSE LET o  == Head(others)
           s1 == IF o.isList
                 THEN push(s, newList, spread(s, s.head[o.x], {})).s
                 ELSE IF o.x = AnArray THEN push(s, newList, <<1, 2>>).s
                 ELSE push(s, newList, <<o.x>>).s
       IN  concatLoop_SpreadsArrays(s1, newList, Tail(others))

\* for (const other of others) ...
RECURSIVE concatLoop(_, _, _)
concatLoop(s, newList, others) ==
  IF others = <<>> THEN s
  ELSE LET o  == Head(others)
           s1 == IF o.isList
                 THEN push(s, newList, spread(s, s.head[o.x], {})).s
                 ELSE push(s, newList, <<o.x>>).s
       IN  concatLoop(s1, newList, Tail(others))

\* concat that starts from the receiver itself and appends to it
concat_AppendsToReceiver(s, this, others, newList) ==
  LET s1 == concatLoop(s, this, others)
  IN  [s1 EXCEPT !.head[newList] = s1.head[this],
                 !.tail[newList] = s1.tail[this],
                 !.length[newList] = s1.length[this]]

\* this.concat(...others), the list it returns being newList
concat(s, this, others, newList) ==
  concatLoop(constructorOf(s, newList, this), newList, others)

\* the generator loop leaving out the item it starts from
RECURSIVE generate_FromSecond(_, _, _)
generate_FromSecond(s, current, seen) ==
  IF s.behind[current] = NoItem THEN Returned(<<>>, 0)
  ELSE LET r == generate_FromSecond(s, s.behind[current], seen \cup {current})
       IN  [r EXCEPT !.ret = <<s.behind[current]>> \o @]

\* do { yield current; current = current.behind } while (current): the
\* items a generator yields when it is run to its end; it never ends when
\* it comes to an item a second time
RECURSIVE generate(_, _, _)
generate(s, current, seen) ==
  IF s.behind[current] = NoItem THEN Returned(<<current>>, 0)
  ELSE IF s.behind[current] \in seen \cup {current}
  THEN [ret |-> <<current>>, calls |-> 0, threw |-> FALSE, hang |-> TRUE]
  ELSE LET r == generate(s, s.behind[current], seen \cup {current})
       IN  [r EXCEPT !.ret = <<current>> \o @]

\* keys(), run to its end
keysAll(s, l) ==
  IF s.head[l] = NoItem THEN Returned(<<>>, 0)
  ELSE generate(s, s.head[l], {})

\* values(), run to its end
valuesAll(s, l) ==
  LET r == keysAll(s, l)
  IN  [r EXCEPT !.ret = [i \in DOMAIN @ |-> s.value[@[i]]]]

\* [Symbol.iterator](), run to its end
iterator(s, l) ==
  LET r == keysAll(s, l)
  IN  [r EXCEPT !.ret = [i \in DOMAIN @ |-> <<@[i], s.value[@[i]]>>]]

\* entries(), run to its end
entries(s, l) == iterator(s, l)

\* The callbacks of filter: a callback is the set of the values for which it
\* returns truthy.
Preds == SUBSET Values

\* The callbacks of map: a callback is the function it computes on the value.
Maps == [Values -> Values]

\* what a call that makes a list gives back: the state with the list in it,
\* and the items its callback was called with, in the order of the calls
Made(s, called) == [s |-> s, called |-> called]

\* the loop of filter that pushes whatever the callback returns
RECURSIVE filterLoop_KeepsAll(_, _, _, _, _, _)
filterLoop_KeepsAll(s, current, cb, newList, called, seen) ==
  IF current = NoItem THEN Made(s, called)
  ELSE IF current \in seen THEN Made([s EXCEPT !.hang = TRUE], called)
  ELSE LET s1 == pushOne(s, newList, s.value[current])
       IN  filterLoop_KeepsAll(s1, s1.behind[current], cb, newList,
                               Append(called, current), seen \cup {current})

\* for (const [item, value] of this)
\*   if (callback(value, item, this)) newList.push(value)
RECURSIVE filterLoop(_, _, _, _, _, _)
filterLoop(s, current, cb, newList, called, seen) ==
  IF current = NoItem THEN Made(s, called)
  ELSE IF current \in seen THEN Made([s EXCEPT !.hang = TRUE], called)
  ELSE LET s1 == IF s.value[current] \in cb
                 THEN pushOne(s, newList, s.value[current])
                 ELSE s
       IN  filterLoop(s1, s1.behind[current], cb, newList,
                      Append(called, current), seen \cup {current})

\* this.filter(callback), the list it returns being newList
filter(s, this, cb, newList) ==
  filterLoop(s, s.head[this], cb, newList, <<>>, {})

\* for (const [item, value] of this)
\*   newList.push(callback(value, item, this))
RECURSIVE mapLoop(_, _, _, _, _, _)
mapLoop(s, current, cb, newList, called, seen) ==
  IF current = NoItem THEN Made(s, called)
  ELSE IF current \in seen THEN Made([s EXCEPT !.hang = TRUE], called)
  ELSE LET s1 == pushOne(s, newList, cb[s.value[current]])
       IN  mapLoop(s1, s1.behind[current], cb, newList,
                   Append(called, current), seen \cup {current})

\* this.map(callback), the list it returns being newList
map(s, this, cb, newList) == mapLoop(s, s.head[this], cb, newList, <<>>, {})

-----------------------------------------------------------------------------
(* The state machine *)

\* the state after a call: s when the call returned, the state of the call
\* with hang set when it never returns
Commit(s, o) ==
  /\ hang' = s.hang
  /\ error' = FALSE
  /\ op' = o
  /\ UNCHANGED <<generator, genCurrent, yielded, atStart>>
  /\ IF s.hang
     THEN UNCHANGED <<value, behind, before, unlinkCleanup, head, tail,
                      length, alloc, cleanups>>
     ELSE /\ value' = s.value
          /\ behind' = s.behind
          /\ before' = s.before
          /\ unlinkCleanup' = s.unlinkCleanup
          /\ head' = s.head
          /\ tail' = s.tail
          /\ length' = s.length
          /\ alloc' = s.alloc
          /\ cleanups' = s.cleanups

Init ==
  \E values \in ArgSeqs :
    LET s == constructor(EmptySt, list, values)
    IN  /\ value = s.value
        /\ behind = s.behind
        /\ before = s.before
        /\ unlinkCleanup = s.unlinkCleanup
        /\ head = s.head
        /\ tail = s.tail
        /\ length = s.length
        /\ alloc = s.alloc
        /\ cleanups = s.cleanups
        /\ hang = FALSE
        /\ error = FALSE
        /\ op = "constructor"
        /\ generator = "none"
        /\ genCurrent = NoItem
        /\ yielded = <<>>
        /\ atStart = <<>>

PushCall(values) ==
  /\ ~hang
  /\ alloc + Len(values) <= MaxNodes
  /\ Commit(push(St, list, values).s, "push")

Push == \E values \in ArgSeqs : PushCall(values)

UnshiftCall(values) ==
  /\ ~hang
  /\ alloc + Len(values) <= MaxNodes
  /\ Commit(unshift(St, list, values).s, "unshift")

Unshift == \E values \in ArgSeqs : UnshiftCall(values)

Pop ==
  /\ ~hang
  /\ Commit(pop(St, list).s, "pop")

Shift ==
  /\ ~hang
  /\ Commit(shift(St, list).s, "shift")

RemoveCall(v) ==
  /\ ~hang
  /\ Commit(remove(St, list, v).s, "remove")

Remove == \E v \in Values : RemoveCall(v)

RemoveAllOccurrencesCall(v) ==
  /\ ~hang
  /\ Commit(removeAllOccurrences(St, list, v).s, "removeAllOccurrences")

RemoveAllOccurrences == \E v \in Values : RemoveAllOccurrencesCall(v)

ClearCall(unchain) ==
  /\ ~hang
  /\ Commit(clear(St, list, unchain), "clear")

Clear == \E unchain \in BOOLEAN : ClearCall(unchain)

\* the caller calls unlink on an item it holds
Unlink(n, unchain) ==
  /\ ~hang
  /\ Commit(unlink(St, n, unchain), "unlink")

\* the items reachable from head of l by following behind
RECURSIVE reach(_, _, _)
reach(s, n, seen) ==
  IF n = NoItem \/ n \in seen THEN seen
  ELSE reach(s, s.behind[n], seen \cup {n})

Reachable(s, l) == reach(s, s.head[l], {})

UnlinkInList ==
  \E n \in Reachable(St, list), unchain \in BOOLEAN : Unlink(n, unchain)

UnlinkHeld ==
  \E n \in 1..alloc, unchain \in BOOLEAN : Unlink(n, unchain)

\* the List operations
Next ==
  \/ Push
  \/ Unshift
  \/ Pop
  \/ Shift
  \/ Remove
  \/ RemoveAllOccurrences
  \/ Clear

Spec == Init /\ [][Next]_vars

\* the List operations and unlink() on items that are in the list
NextIn == Next \/ UnlinkInList

SpecIn == Init /\ [][NextIn]_vars

\* the List operations and unlink() on any item the caller got from the list
NextHeld == Next \/ UnlinkHeld

SpecHeld == Init /\ [][NextHeld]_vars

\* the caller constructs an item of its own: new LinkedListItem(v)
NewItemCall(v) ==
  /\ ~hang
  /\ alloc < MaxItems
  /\ Commit(newItem(St, v, NoCleanup), "new")

NewItem == \E v \in Values : NewItemCall(v)

\* the items met from n by following behind, in order, up to the first
\* item met twice
RECURSIVE chain(_, _, _)
chain(s, n, acc) ==
  IF n = NoItem \/ n \in {acc[i] : i \in DOMAIN acc} THEN acc
  ELSE chain(s, s.behind[n], Append(acc, n))

\* does the chain of items from n along behind end
Ends(s, n) ==
  LET c == chain(s, n, <<>>) IN c # <<>> /\ s.behind[c[Len(c)]] = NoItem

\* item heads a chain that ends and shares no item with the chain from a,
\* which ends too
Splicable(s, a, item) ==
  /\ s.before[item] = NoItem
  /\ a # item
  /\ LET ca == chain(s, a, <<>>)
         ci == chain(s, item, <<>>)
     IN  /\ s.behind[ca[Len(ca)]] = NoItem
         /\ s.behind[ci[Len(ci)]] = NoItem
         /\ {ca[i] : i \in DOMAIN ca} \cap {ci[i] : i \in DOMAIN ci} = {}

\* the caller splices the chain of item behind a: a.insertBehind(item)
InsertBehindCall(a, item) ==
  /\ ~hang
  /\ Splicable(St, a, item)
  /\ Commit(insertBehind(St, a, item), "insertBehind")

InsertBehind == \E a \in 1..alloc, item \in 1..alloc : InsertBehindCall(a, item)

\* items of the caller's own, spliced into chains
NextItems == NewItem \/ InsertBehind

SpecItems == Init /\ [][NextItems]_vars

\* push and unlink() on any item the caller got from the list
NextUnlink == Push \/ UnlinkHeld

SpecUnlink == Init /\ [][NextUnlink]_vars

\* a call that reads the list: only the record of the call changes
Query(o, r) ==
  /\ op' = o
  /\ error' = r.threw
  /\ hang' = r.hang
  /\ UNCHANGED <<value, behind, before, unlinkCleanup, head, tail, length,
                 alloc, cleanups, generator, genCurrent, yielded, atStart>>

ReduceCall(seed) ==
  /\ ~hang
  /\ Query("reduce", reduce(St, list, seed))

Reduce == \E seed \in Seeds : ReduceCall(seed)

ReduceRightCall(seed) ==
  /\ ~hang
  /\ Query("reduceRight", reduceRight(St, list, seed))

ReduceRight == \E seed \in Seeds : ReduceRightCall(seed)

\* the List operations and the folds
NextFold == Next \/ Reduce \/ ReduceRight

SpecFold == Init /\ [][NextFold]_vars

IncludesCall(v, fromIndex) ==
  /\ ~hang
  /\ Query("includes", includes(St, list, v, fromIndex))

Includes == \E v \in Values, fromIndex \in Indices : IncludesCall(v, fromIndex)

ItemOfCall(searchedValue, fromIndex) ==
  /\ ~hang
  /\ Query("itemOf", itemOf(St, list, searchedValue, fromIndex))

ItemOf ==
  \E searchedValue \in Values, fromIndex \in Indices :
    ItemOfCall(searchedValue, fromIndex)

LastItemOfCall(searchedValue, fromIndex) ==
  /\ ~hang
  /\ Query("lastItemOf", lastItemOf(St, list, searchedValue, fromIndex))

LastItemOf ==
  \E searchedValue \in Values, fromIndex \in Indices :
    LastItemOfCall(searchedValue, fromIndex)

\* the List operations and the forward search
NextFind == Next \/ ItemOf

SpecFind == Init /\ [][NextFind]_vars

\* lists grown by push and emptied by pop and shift, and the searches
NextSeek == Push \/ Pop \/ Shift \/ Includes \/ ItemOf \/ LastItemOf

SpecSeek == Init /\ [][NextSeek]_vars

\* no list has been made yet in the place l
Unmade(l) ==
  /\ head[l] = NoItem /\ tail[l] = NoItem /\ length[l] = 0
  /\ \A n \in 1..alloc : unlinkCleanup[n] # l

\* the items a call of concat makes
RECURSIVE Contribution(_, _)
Contribution(this, others) ==
  IF others = <<>> THEN length[this]
  ELSE Contribution(this, Tail(others))
         + (IF Head(others).isList THEN length[Head(others).x] ELSE 1)

\* other = new LinkedList(values), values an iterable
ConstructorCall(values) ==
  /\ ~hang
  /\ Unmade(other) /\ Unmade(made)
  /\ alloc + Len(values) <= Cardinality(Nodes)
  /\ Commit(constructor(St, other, values), "constructor")

\* other = new LinkedList(list)
ConstructorOfCall ==
  /\ ~hang
  /\ Unmade(other) /\ Unmade(made)
  /\ alloc + length[list] <= Cardinality(Nodes)
  /\ Commit(constructorOf(St, other, list), "constructorOf")

Constructor == (\E values \in ArgSeqs : ConstructorCall(values)) \/ ConstructorOfCall

\* made = list.concat(...others)
ConcatCall(others) ==
  /\ ~hang
  /\ Unmade(made)
  /\ alloc + Contribution(list, others) <= Cardinality(Nodes)
  /\ Commit(concat(St, list, others, made), "concat")

Concat == \E others \in OtherSeqs : ConcatCall(others)

\* a list that loses items from its head, a second list made of it or of
\* values, and a list concat makes of them
NextCopy == Shift \/ Constructor \/ Concat

SpecCopy == Init /\ [][NextCopy]_vars

IteratorCall ==
  /\ ~hang
  /\ Query("iterator", iterator(St, list))

EntriesCall ==
  /\ ~hang
  /\ Query("entries", entries(St, list))

KeysCall ==
  /\ ~hang
  /\ Query("keys", keysAll(St, list))

ValuesCall ==
  /\ ~hang
  /\ Query("values", valuesAll(St, list))

\* the List operations and the traversals, each run to its end
NextIter == Next \/ IteratorCall \/ EntriesCall \/ KeysCall \/ ValuesCall

SpecIter == Init /\ [][NextIter]_vars

\* made = list.filter(callback)
FilterCall(cb) ==
  /\ ~hang
  /\ Unmade(made)
  /\ alloc + length[list] <= Cardinality(Nodes)
  /\ Commit(filter(St, list, cb, made).s, "filter")

Filter == \E cb \in Preds : FilterCall(cb)

\* made = list.map(callback)
MapCall(cb) ==
  /\ ~hang
  /\ Unmade(made)
  /\ alloc + length[list] <= Cardinality(Nodes)
  /\ Commit(map(St, list, cb, made).s, "map")

Map == \E cb \in Maps : MapCall(cb)

\* a list grown and shrunk, and the list filter or map makes of it
NextMake == Push \/ Shift \/ Remove \/ Filter \/ Map

SpecMake == Init /\ [][NextMake]_vars

\* the first next() of a generator made by keys() or entries():
\* let current = this.head; if (!current) return; then the first yield
Start(g) ==
  /\ generator = "none"
  /\ error' = FALSE
  /\ genCurrent' = head[list]
  /\ atStart' = chain(St, head[list], <<>>)
  /\ IF head[list] = NoItem
     THEN generator' = "none" /\ yielded' = <<>> /\ op' = "return"
     ELSE generator' = g /\ yielded' = <<head[list]>> /\ op' = "yield"
  /\ UNCHANGED <<value, behind, before, unlinkCleanup, head, tail, length,
                 alloc, cleanups, hang>>

KeysStart ==
  /\ ~hang
  /\ Start("keys")

EntriesStart ==
  /\ ~hang
  /\ Start("entries")

\* a later next(): current = current.behind; while (current) yields it, the
\* generator returns when there is none
Resume ==
  /\ ~hang
  /\ generator # "none"
  /\ error' = FALSE
  /\ genCurrent' = keys(St, genCurrent)
  /\ IF keys(St, genCurrent) = NoItem
     THEN generator' = "none" /\ yielded' = yielded /\ op' = "return"
     ELSE /\ generator' = generator
          /\ yielded' = Append(yielded, keys(St, genCurrent))
          /\ op' = "yield"
  /\ UNCHANGED <<value, behind, before, unlinkCleanup, head, tail, length,
                 alloc, cleanups, hang, atStart>>

\* the body of the loop over the generator calls unlink() on the item
\* yielded last
UnlinkYielded ==
  /\ generator # "none"
  /\ unlinkCleanup[genCurrent] # NoCleanup
  /\ Unlink(genCurrent, FALSE)

\* push and shift while no generator is suspended
PushIdle == generator = "none" /\ Push

ShiftIdle == generator = "none" /\ Shift

\* a list grown and shrunk, traversed step by step with keys() or entries(),
\* the loop body removing items it was handed; the loop calls next() again
\* after each round of its body
NextWalk ==
  \/ PushIdle
  \/ ShiftIdle
  \/ KeysStart
  \/ EntriesStart
  \/ Resume
  \/ UnlinkYielded

SpecWalk == Init /\ [][NextWalk]_vars /\ WF_vars(Resume)

-----------------------------------------------------------------------------
(* Observations used by the properties *)

Range(f) == {f[i] : i \in DOMAIN f}

Last(q) == q[Len(q)]

Front(q) == SubSeq(q, 1, Len(q) - 1)

\* the items of list l from its head
Items(s, l) == chain(s, s.head[l], <<>>)

\* the values of a sequence of items
ValuesOf(s, items) == [i \in DOMAIN items |-> s.value[items[i]]]

\* the values of list l from its head
ListValues(s, l) == ValuesOf(s, Items(s, l))

\* the item k links away from n, NoItem when the links end earlier
RECURSIVE walk(_, _, _)
walk(link, n, k) ==
  IF n = NoItem \/ k <= 0 THEN n ELSE walk(link, link[n], k - 1)

\* items without its i-th element
Without(items, i) ==
  [j \in 1..(Len(items) - 1) |-> IF j < i THEN items[j] ELSE items[j + 1]]

LengthCounts(s, l) == s.length[l] = Cardinality(Reachable(s, l))

HeadTailShape(s, l) ==
  /\ s.length[l] = 0 <=> (s.head[l] = NoItem /\ s.tail[l] = NoItem)
  /\ s.length[l] = 1 <=> (s.head[l] # NoItem /\ s.head[l] = s.tail[l])
  /\ s.length[l] > 1 =>
       s.head[l] # NoItem /\ s.tail[l] # NoItem /\ s.head[l] # s.tail[l]

EndsMeet(s, l) ==
  s.head[l] # NoItem =>
    /\ s.tail[l] # NoItem
    /\ s.length[l] >= 1
    /\ walk(s.behind, s.head[l], s.length[l] - 1) = s.tail[l]
    /\ walk(s.before, s.tail[l], s.length[l] - 1) = s.head[l]
    /\ s.behind[s.tail[l]] = NoItem
    /\ s.before[s.head[l]] = NoItem

LinksAgree(s, l) ==
  \A a, b \in Reachable(s, l) :
    /\ s.behind[a] = b => s.before[b] = a
    /\ s.before[b] = a => s.behind[a] = b

ListInvariants(s, l) ==
  LengthCounts(s, l) /\ HeadTailShape(s, l) /\ EndsMeet(s, l) /\ LinksAgree(s, l)

Removals == {"pop", "shift", "remove", "removeAllOccurrences", "clear"}

-----------------------------------------------------------------------------
(* Properties *)

\* C1: after any sequence of List operations on an empty or pre-populated
\* list, length is the number of items reachable from head along behind.
C1_LengthCountsReachable == LengthCounts(St, list)

C1_Witness ==
  op \in Removals /\ length[list] = 2 /\ alloc = MaxNodes

\* C2: length = 0 iff head and tail are both undefined, length = 1 iff head
\* and tail are the same defined item, and for length > 1 head and tail are
\* distinct defined items.
C2_HeadTailShape == HeadTailShape(St, list)

C2_Witness ==
  op \in Removals /\ length[list] = 1 /\ head[list] = tail[list]
    /\ head[list] # NoItem /\ alloc >= 2

\* C3: in a non-empty list length-1 steps along behind lead from head to
\* tail, length-1 steps along before lead from tail to head, and
\* tail.behind and head.before are undefined.
C3_EndsMeet == EndsMeet(St, list)

C3_Witness ==
  op \in Removals /\ length[list] >= 2
    /\ walk(behind, head[list], length[list] - 1) = tail[list]

\* C4: after List operations and unlink() calls on items of the list, for
\* all items a, b reachable from head: a.behind = b implies b.before = a,
\* and b.before = a implies a.behind = b.
C4_LinksAgree == LinksAgree(St, list)

C4_Witness ==
  op = "unlink" /\ length[list] >= 2 /\ behind[head[list]] = tail[list]
    /\ before[tail[list]] = head[list]

\* C5: length is never negative, also when the caller calls unlink() on
\* items it got from the list and still holds after clear() or after their
\* removal.
C5_LengthNonNegative == length[list] >= 0

\* C6: push(v1..vk) on a list with values L yields L followed by v1..vk,
\* creates one new item per value in argument order behind the items the
\* list had, which keep their identity and order, makes the item of vk the
\* tail, increases length by k and returns the new length.
C6_PushAppends ==
  [][\A values \in ArgSeqs :
       op' = "push" /\ PushCall(values) =>
         LET k == Len(values)
         IN  /\ ListValues(St, list)' = ListValues(St, list) \o values
             /\ Items(St, list)' =
                  Items(St, list) \o [i \in 1..k |-> alloc + i]
             /\ alloc' = alloc + k
             /\ k > 0 => tail'[list] = alloc + k
             /\ length'[list] = length[list] + k
             /\ push(St, list, values).ret = length'[list]]_vars

C6_Witness ==
  op = "push" /\ length[list] = 3 /\ alloc = 3
    /\ ListValues(St, list) = <<1, 2, 1>>

\* C7: unshift(v) on a list with values L yields v followed by L, makes the
\* new item the head (and the tail too when L was empty), increases length
\* by 1 and returns the new length.
C7_UnshiftPrepends ==
  [][\A v \in Values :
       op' = "unshift" /\ UnshiftCall(<<v>>) =>
         /\ ListValues(St, list)' = <<v>> \o ListValues(St, list)
         /\ Items(St, list)' = <<alloc + 1>> \o Items(St, list)
         /\ head'[list] = alloc + 1
         /\ Items(St, list) = <<>> => tail'[list] = head'[list]
         /\ length'[list] = length[list] + 1
         /\ unshift(St, list, <<v>>).ret = length'[list]]_vars

C7_Witness ==
  op = "unshift" /\ length[list] = 3 /\ head[list] = 3
    /\ ListValues(St, list) = <<2, 1, 1>>

\* C8: on a non-empty list with values L, pop() returns the last value of L
\* and leaves L without its last element, shift() returns the first value
\* of L and leaves L without its first element; either way length drops by
\* 1 and the list invariants hold, head and tail being undefined when L had
\* one element.
C8_PopShiftRemoveEnds ==
  [][op' \in {"pop", "shift"} /\ Items(St, list) # <<>> =>
       /\ Pop =>
            /\ pop(St, list).ret = Last(ListValues(St, list))
            /\ Items(St, list)' = Front(Items(St, list))
            /\ ListValues(St, list)' = Front(ListValues(St, list))
       /\ Shift =>
            /\ shift(St, list).ret = Head(ListValues(St, list))
            /\ Items(St, list)' = Tail(Items(St, list))
            /\ ListValues(St, list)' = Tail(ListValues(St, list))
       /\ Pop \/ Shift =>
            /\ length'[list] = length[list] - 1
            /\ ListInvariants(St, list)'
            /\ Len(Items(St, list)) = 1 =>
                 head'[list] = NoItem /\ tail'[list] = NoItem]_vars

C8_Witness ==
  op \in {"pop", "shift"} /\ length[list] = 2 /\ alloc = 3

C8_WitnessLastItem ==
  op \in {"pop", "shift"} /\ length[list] = 0 /\ alloc >= 1

\* the index of the first item of items whose value is v, 0 when there is
\* none
FirstMatch(s, items, v) ==
  IF \E i \in DOMAIN items : s.value[items[i]] = v
  THEN CHOOSE i \in DOMAIN items :
         /\ s.value[items[i]] = v
         /\ \A j \in 1..(i - 1) : s.value[items[j]] # v
  ELSE 0

\* C9: remove(value) unlinks the first item from head whose value equals
\* value and returns true, all other items staying in their order, later
\* duplicates included; without a match it returns false and leaves head,
\* tail, length and the values alone.
C9_RemoveFirstMatch ==
  [][\A v \in Values :
       op' = "remove" /\ RemoveCall(v) =>
         LET items == Items(St, list)
             i     == FirstMatch(St, items, v)
         IN  IF i # 0
             THEN /\ remove(St, list, v).ret = TRUE
                  /\ Items(St, list)' = Without(items, i)
                  /\ ListValues(St, list)' = ValuesOf(St, Without(items, i))
                  /\ unlinkCleanup'[items[i]] = NoCleanup
                  /\ length'[list] = length[list] - 1
             ELSE /\ remove(St, list, v).ret = FALSE
                  /\ head' = head /\ tail' = tail /\ length' = length
                  /\ Items(St, list)' = items
                  /\ ListValues(St, list)' = ListValues(St, list)]_vars

C9_Witness ==
  op = "remove" /\ alloc = 3 /\ ListValues(St, list) = <<2, 1>>
    /\ Items(St, list) = <<2, 3>> /\ value[1] = 1

C9_WitnessNoMatch ==
  op = "remove" /\ length[list] = 3 /\ ListValues(St, list) = <<1, 1, 1>>

\* is the value of item n different from v
Keeps(s, v) == [n \in Nodes |-> s.value[n] # v]

\* the elements of items that keep[_] holds for, in order
RECURSIVE Kept(_, _)
Kept(items, keep) ==
  IF items = <<>> THEN <<>>
  ELSE IF keep[Head(items)]
       THEN <<Head(items)>> \o Kept(Tail(items), keep)
       ELSE Kept(Tail(items), keep)

\* C10: removeAllOccurrences(value) removes every item whose value equals
\* value (at the head, at the tail, adjacent ones), keeps the others in
\* their order, decreases length by the number of matches, leaves head and
\* tail consistent (undefined when every item matched) and returns true
\* iff some item matched.
C10_RemoveAllMatches ==
  [][\A v \in Values :
       op' = "removeAllOccurrences" /\ RemoveAllOccurrencesCall(v) =>
         LET items == Items(St, list)
             rest  == Kept(items, Keeps(St, v))
         IN  /\ Items(St, list)' = rest
             /\ ListValues(St, list)' = ValuesOf(St, rest)
             /\ length'[list] = length[list] - (Len(items) - Len(rest))
             /\ ListInvariants(St, list)'
             /\ rest = <<>> => head'[list] = NoItem /\ tail'[list] = NoItem
             /\ rest # <<>> =>
                  head'[list] = Head(rest) /\ tail'[list] = Last(rest)
             /\ removeAllOccurrences(St, list, v).ret
                  = (Len(rest) < Len(items))]_vars

C10_Witness ==
  op = "removeAllOccurrences" /\ alloc = 3 /\ Items(St, list) = <<2>>
    /\ value[1] = 1 /\ value[2] = 2 /\ value[3] = 1

C10_WitnessAll ==
  op = "removeAllOccurrences" /\ alloc = 3 /\ length[list] = 0
    /\ value[1] = 1 /\ value[2] = 1 /\ value[3] = 1 /\ behind[1] = 2

\* C11: after clear() head and tail are undefined and length is 0; a
\* push(x) that follows yields length 1 with head and tail the same new
\* item holding x, which has no link to or from an item of the cleared
\* chain.
C11_ClearThenPush ==
  [][/\ op' = "clear" /\ ~hang' =>
          head'[list] = NoItem /\ tail'[list] = NoItem /\ length'[list] = 0
     /\ \A x \in Values :
          op = "clear" /\ op' = "push" /\ PushCall(<<x>>) =>
            /\ length'[list] = 1
            /\ head'[list] = alloc + 1
            /\ tail'[list] = alloc + 1
            /\ value'[alloc + 1] = x
            /\ behind'[alloc + 1] = NoItem
            /\ before'[alloc + 1] = NoItem
            /\ \A m \in 1..alloc :
                 behind'[m] # alloc + 1 /\ before'[m] # alloc + 1]_vars

C11_Witness ==
  op = "push" /\ length[list] = 1 /\ head[list] = 3 /\ tail[list] = 3
    /\ behind[1] = 2 /\ before[2] = 1
    /\ unlinkCleanup[1] = list /\ unlinkCleanup[2] = list

\* C12: clear(true) returns, and then every item that was in the list has
\* before and behind undefined, and head and tail are undefined and length
\* is 0.
C12_ClearUnchains ==
  [][op' = "clear" /\ ClearCall(TRUE) =>
       /\ ~hang'
       /\ \A n \in Range(Items(St, list)) :
            before'[n] = NoItem /\ behind'[n] = NoItem
       /\ head'[list] = NoItem /\ tail'[list] = NoItem
       /\ length'[list] = 0]_vars

C12_Witness ==
  op = "clear" /\ alloc = 3 /\ length[list] = 0
    /\ \A n \in 1..3 :
         /\ unlinkCleanup[n] = NoCleanup
         /\ before[n] = NoItem
         /\ behind[n] = NoItem

\* C13: unlink() on an item with predecessor p and successor s sets
\* p.behind = s and s.before = p and leaves the item's own before = p and
\* behind = s; unlink(true) relinks p and s the same way and sets the item's
\* before and behind to undefined.
C13_UnlinkRelinksNeighbours ==
  [][\A n \in 1..alloc, unchain \in BOOLEAN :
       /\ op' = "unlink"
       /\ before[n] # NoItem
       /\ behind[n] # NoItem
       /\ Unlink(n, unchain)
       => /\ behind'[before[n]] = behind[n]
          /\ before'[behind[n]] = before[n]
          /\ ~unchain => before'[n] = before[n] /\ behind'[n] = behind[n]
          /\ unchain => before'[n] = NoItem /\ behind'[n] = NoItem]_vars

C13_Witness ==
  op = "unlink" /\ alloc = 3 /\ Items(St, list) = <<1, 3>>
    /\ before[3] = 1 /\ before[2] = 1 /\ behind[2] = 3

C13_WitnessUnchain ==
  op = "unlink" /\ alloc = 3 /\ Items(St, list) = <<1, 3>>
    /\ before[3] = 1 /\ before[2] = NoItem /\ behind[2] = NoItem

\* C14: an item's cleanup callback is called at most once as long as the
\* item is not given a callback again by an insertBehind: the first
\* unlink() on the item calls it once, with the item, and clears it, and an
\* unlink() on an item without callback calls nothing.
C14_CleanupCalledOnce ==
  [][/\ \A n \in Nodes : cleanups'[n] <= 1
     /\ \A n \in 1..alloc, unchain \in BOOLEAN :
          op' = "unlink" /\ Unlink(n, unchain) =>
            /\ unlinkCleanup'[n] = NoCleanup
            /\ unlinkCleanup[n] # NoCleanup =>
                 cleanups' = [cleanups EXCEPT ![n] = 1]
            /\ unlinkCleanup[n] = NoCleanup =>
                 /\ cleanups' = cleanups
                 /\ head' = head /\ tail' = tail /\ length' = length]_vars

\* items 2 and 3 were unlinked and 2 was then unlinked again, which is what
\* links 1 to 3 once more
C14_Witness ==
  op = "unlink" /\ alloc = 3 /\ length[list] = 1 /\ head[list] = 1
    /\ behind[1] = 3 /\ before[3] = 1
    /\ cleanups[2] = 1 /\ cleanups[3] = 1
    /\ unlinkCleanup[2] = NoCleanup /\ unlinkCleanup[3] = NoCleanup

\* C15: a.insertBehind(item), item heading a chain of k >= 1 items that
\* ends and shares no item with a's chain, a having a successor oldNext or
\* none: afterwards the items from a on are a, the k items of item's chain
\* in order, then oldNext and its successors; item.before = a,
\* a.behind = item, and with an oldNext the end of item's chain has
\* behind = oldNext and oldNext.before is that end.
C15_InsertBehindSplices ==
  [][\A a \in 1..alloc, item \in 1..alloc :
       op' = "insertBehind" /\ InsertBehindCall(a, item) =>
         LET spliced == chain(St, item, <<>>)
             old     == Tail(chain(St, a, <<>>))
         IN  /\ ~hang'
             /\ chain(St, a, <<>>)' = <<a>> \o spliced \o old
             /\ before'[item] = a
             /\ behind'[a] = item
             /\ before'[a] = before[a]
             /\ old # <<>> =>
                  /\ behind'[Last(spliced)] = Head(old)
                  /\ before'[Head(old)] = Last(spliced)
             /\ old = <<>> => behind'[Last(spliced)] = NoItem]_vars

\* a chain of two items was spliced between an item and its successor
\* (item 4 was linked behind 3 before 3 got the callback of the list)
C15_Witness ==
  op = "insertBehind" /\ alloc = 4
    /\ chain(St, 1, <<>>) = <<1, 3, 4, 2>>
    /\ before[2] = 4 /\ before[3] = 1
    /\ unlinkCleanup[3] = list /\ unlinkCleanup[4] = NoCleanup

\* the sequence s in reverse
Reverse(s) == [i \in 1..Len(s) |-> s[Len(s) + 1 - i]]

\* C16: on a list of n >= 1 values, reduce without a seed is the left fold of
\* the values from head to tail and reduceRight the fold from tail to head,
\* the callback being called n - 1 times (not at all for n = 1); with a seed
\* the fold starts from the seed and the callback is called n times.
C16_ReduceFolds ==
  LET vs == ListValues(St, list)
      n  == Len(vs)
  IN  n >= 1 =>
        /\ reduce(St, list, Undefined) = Returned(vs, n - 1)
        /\ reduceRight(St, list, Undefined) = Returned(Reverse(vs), n - 1)
        /\ \A seed \in Seeds \ {Undefined} :
             /\ reduce(St, list, seed) = Returned(<<seed>> \o vs, n)
             /\ reduceRight(St, list, seed)
                  = Returned(<<seed>> \o Reverse(vs), n)

C16_Witness ==
  /\ op = "reduceRight" /\ ~error /\ ~hang
  /\ length[list] = 3
  /\ ListValues(St, list) = <<1, 2, 2>>
  /\ reduceRight(St, list, Undefined).ret = <<2, 2, 1>>
  /\ reduce(St, list, FalsySeed).calls = 3

\* C17: reduce and reduceRight on an empty list without a seed throw, without
\* calling the callback and without changing head, tail or length; and no
\* other call of the List API throws: a call that throws is a reduce or a
\* reduceRight on an empty list, and one made without a seed.
C17_OnlyErrorIsEmptyFold ==
  [][/\ op' \in {"reduce", "reduceRight"} /\ head[list] = NoItem
          /\ (ReduceCall(Undefined) \/ ReduceRightCall(Undefined))
        => /\ error'
           /\ reduce(St, list, Undefined).calls = 0
           /\ reduceRight(St, list, Undefined).calls = 0
           /\ UNCHANGED <<head, tail, length, behind, before>>
     /\ error'
        => /\ op' \in {"reduce", "reduceRight"}
           /\ head[list] = NoItem /\ tail[list] = NoItem
           /\ \A seed \in Seeds :
                ReduceCall(seed) \/ ReduceRightCall(seed) => seed = Undefined
    ]_vars

\* C18: reduce and reduceRight on an empty list with a seed return the seed
\* and never call the callback, whatever the seed, falsy ones included.
C18_SeedReturnedOnEmpty ==
  [][\A seed \in Seeds \ {Undefined} :
       /\ op' = "reduce" /\ head[list] = NoItem /\ ReduceCall(seed)
            => ~error' /\ reduce(St, list, seed) = Returned(<<seed>>, 0)
       /\ op' = "reduceRight" /\ tail[list] = NoItem /\ ReduceRightCall(seed)
            => ~error'
               /\ reduceRight(St, list, seed) = Returned(<<seed>>, 0)
    ]_vars

\* C19: the calls that find nothing return "nothing" and change nothing:
\* pop and shift on an empty list return undefined; includes, itemOf and
\* lastItemOf started at an index outside the list (index >= length or
\* index < -length) or on an empty list return false resp. undefined; none
\* of them throws and none changes head, tail, length or a link.
C19_NothingFound ==
  [][/\ op' = "pop" /\ head[list] = NoItem /\ Pop
        => /\ pop(St, list).ret = Undefined
           /\ ~error' /\ ~hang'
           /\ UNCHANGED <<head, tail, length, behind, before>>
     /\ op' = "shift" /\ head[list] = NoItem /\ Shift
        => /\ shift(St, list).ret = Undefined
           /\ ~error' /\ ~hang'
           /\ UNCHANGED <<head, tail, length, behind, before>>
     /\ op' \in {"includes", "itemOf", "lastItemOf"}
        => \A v \in Values, i \in Indices :
             \/ head[list] = NoItem
             \/ i >= length[list]
             \/ i < 0 - length[list]
             => /\ op' = "includes" /\ IncludesCall(v, i)
                     => /\ includes(St, list, v, i) = Returned(FALSE, 0)
                        /\ ~error' /\ ~hang'
                        /\ UNCHANGED <<head, tail, length, behind, before>>
                /\ op' = "itemOf" /\ ItemOfCall(v, i)
                     => /\ itemOf(St, list, v, i) = Returned(NoItem, 0)
                        /\ ~error' /\ ~hang'
                        /\ UNCHANGED <<head, tail, length, behind, before>>
                /\ op' = "lastItemOf" /\ LastItemOfCall(v, i)
                     => /\ lastItemOf(St, list, v, i) = Returned(NoItem, 0)
                        /\ ~error' /\ ~hang'
                        /\ UNCHANGED <<head, tail, length, behind, before>>
    ]_vars

\* a search on a list of two items that finds its value from inside the list
\* and nothing from outside of it
C19_Witness ==
  /\ op = "lastItemOf" /\ ~error /\ ~hang
  /\ ListValues(St, list) = <<1, 2>>
  /\ lastItemOf(St, list, 1, 0 - 1).ret = head[list]
  /\ lastItemOf(St, list, 1, 0 - 3).ret = NoItem
  /\ lastItemOf(St, list, 1, 2).ret = NoItem

OccursFrom(s, l, v, start) ==
  \E k \in 1..Len(Items(s, l)) :
    k - 1 >= start /\ s.value[Items(s, l)[k]] = v

Resolved(n, i) ==
  IF 0 <= i /\ i < n THEN i
  ELSE IF 0 - n <= i /\ i < 0 THEN n + i
  ELSE 0 - 1

\* the positions (from 1) of the items holding v
Matches(s, l, v) ==
  {k \in 1..Len(Items(s, l)) : s.value[Items(s, l)[k]] = v}

\* the first item holding v at or after position p (from 0), NoItem if none
FirstAtOrAfter(s, l, v, p) ==
  LET ks == {k \in Matches(s, l, v) : k - 1 >= p}
  IN  IF p < 0 \/ ks = {} THEN NoItem
      ELSE Items(s, l)[CHOOSE k \in ks : \A j \in ks : k <= j]

\* the last item holding v at or before position p (from 0), NoItem if none
LastAtOrBefore(s, l, v, p) ==
  LET ks == {k \in Matches(s, l, v) : k - 1 <= p}
  IN  IF p < 0 \/ ks = {} THEN NoItem
      ELSE Items(s, l)[CHOOSE k \in ks : \A j \in ks : k >= j]

\* C22: itemOf(v) is the item closest to the head that holds v, lastItemOf(v)
\* the one closest to the tail; with a start index itemOf is the first match
\* at or after the item the index resolves to and lastItemOf the first at or
\* before it; both are undefined when there is no such item, and
\* includes(v, i) is true exactly when itemOf(v, i) is defined.
C22_SearchFindsNearest ==
  LET n == Len(Items(St, list))
  IN  \A v \in Values :
        /\ itemOf(St, list, v, 0)
             = Returned(FirstAtOrAfter(St, list, v, 0), 0)
        /\ lastItemOf(St, list, v, 0 - 1)
             = Returned(LastAtOrBefore(St, list, v, n - 1), 0)
        /\ \A i \in Indices :
             /\ itemOf(St, list, v, i)
                  = Returned(FirstAtOrAfter(St, list, v, Resolved(n, i)), 0)
             /\ lastItemOf(St, list, v, i)
                  = Returned(LastAtOrBefore(St, list, v, Resolved(n, i)), 0)
             /\ includes(St, list, v, i).ret
                  = (itemOf(St, list, v, i).ret # NoItem)

C22_Witness ==
  /\ op = "lastItemOf" /\ ~error /\ ~hang
  /\ ListValues(St, list) = <<2, 1, 1>>
  /\ itemOf(St, list, 1, 0).ret = behind[head[list]]
  /\ lastItemOf(St, list, 1, 0 - 1).ret = tail[list]
  /\ lastItemOf(St, list, 1, 1).ret = behind[head[list]]
  /\ lastItemOf(St, list, 1, 0).ret = NoItem
  /\ itemOf(St, list, 2, 1).ret = NoItem

\* the step leaves the lists ls and every item that exists as they are
Untouched(ls) ==
  /\ \A l \in ls :
       head'[l] = head[l] /\ tail'[l] = tail[l] /\ length'[l] = length[l]
  /\ \A n \in 1..alloc :
       /\ behind'[n] = behind[n] /\ before'[n] = before[n]
       /\ value'[n] = value[n] /\ unlinkCleanup'[n] = unlinkCleanup[n]
       /\ cleanups'[n] = cleanups[n]

\* the items of list l after the step were all made by the step: the list
\* starts and ends at items the step made, and these link to each other only
AllNew(l) ==
  LET new == (alloc + 1)..alloc' \cup {NoItem}
  IN  /\ head'[l] \in new /\ tail'[l] \in new
      /\ \A n \in (alloc + 1)..alloc' :
           behind'[n] \in new /\ before'[n] \in new

\* C23: concat returns a new list none of whose items is an item of the
\* receiver or of an argument list, and leaves the receiver and every
\* argument list as they were (head, tail, length, items and links), also
\* when the receiver is one of the arguments.
C23_ConcatCopies ==
  [][op' = "concat" => ~hang' /\ AllNew(made) /\ Untouched({list, other})]_vars

\* the receiver of two items concatenated with itself twice
C23_Witness ==
  /\ op = "concat" /\ ~hang
  /\ Unmade(other)
  /\ length[list] = 2 /\ length[made] = 6
  /\ Range(Items(St, list)) \cap Range(Items(St, made)) = {}
  /\ ListValues(St, made)
       = ListValues(St, list) \o ListValues(St, list) \o ListValues(St, list)

\* the values the arguments of concat add: those of a LinkedList, any other
\* argument itself
RECURSIVE Contributed(_, _)
Contributed(s, others) ==
  IF others = <<>> THEN <<>>
  ELSE (IF Head(others).isList THEN ListValues(s, Head(others).x)
        ELSE <<Head(others).x>>) \o Contributed(s, Tail(others))

\* is there room on the heap for k more items
Room(k) == alloc + k <= Cardinality(Nodes)

\* C24: the values of a.concat(o1..ok) are the values of a followed, in
\* argument order, by the values of each oi that is a LinkedList and by oi
\* itself, as one element, otherwise (an array too); its length is the sum
\* of these; and a.concat(b, c) has the values of a.concat(b).concat(c).
C24_ConcatValues ==
  Unmade(made) /\ ~hang =>
    /\ \A others \in OtherSeqs :
         Room(Contribution(list, others)) =>
           LET s == concat(St, list, others, made)
           IN  /\ ~s.hang
               /\ ListValues(s, made)
                    = ListValues(St, list) \o Contributed(St, others)
               /\ s.length[made] = Contribution(list, others)
               /\ s.length[made] = Len(ListValues(s, made))
    /\ \A b \in Others, c \in Others :
         Room(Contribution(list, <<b>>) + Contribution(list, <<b, c>>)) =>
           LET s1 == concat(St, list, <<b>>, made)
               s2 == concat(s1, made, <<c>>, again)
           IN  ListValues(s2, again)
                 = ListValues(concat(St, list, <<b, c>>, made), made)

C24_Witness ==
  /\ op = "concat" /\ ~hang
  /\ ListValues(St, list) = <<2>>
  /\ ListValues(St, other) = <<1, 2>>
  /\ ListValues(St, made) = <<2, AnArray, 1, 2>>
  /\ length[made] = 4

\* C25: a list constructed from an input sequence holds the input's values
\* in input order, its length their number; constructed from a LinkedList
\* it has new items and the source list is as it was; constructed from
\* nothing it has length 0 and neither head nor tail.
C25_ConstructorCopies ==
  [][/\ op' = "constructor"
        => \A values \in ArgSeqs :
             ConstructorCall(values)
               => /\ ListValues(St, other)' = values
                  /\ length'[other] = Len(values)
                  /\ AllNew(other) /\ Untouched({list})
                  /\ values = <<>>
                       => head'[other] = NoItem /\ tail'[other] = NoItem
     /\ op' = "constructorOf" /\ ConstructorOfCall
        => /\ ~hang'
           /\ ListValues(St, other)' = ListValues(St, list)
           /\ length'[other] = Len(Items(St, list))
           /\ AllNew(other) /\ Untouched({list})
    ]_vars

C25_Witness ==
  /\ op = "constructorOf" /\ ~hang
  /\ ListValues(St, list) = <<2, 1>>
  /\ ListValues(St, other) = <<2, 1>>
  /\ length[other] = 2
  /\ head[list] = 1 /\ tail[list] = 2
  /\ head[other] = 3 /\ tail[other] = 4
  /\ before[3] = NoItem /\ behind[2] = NoItem

\* q holds the items of list l in order: as many as length says, from head
\* to tail, each the item behind the one before it and linked back to it
InOrder(s, l, q) ==
  /\ Len(q) = s.length[l]
  /\ Cardinality(Range(q)) = Len(q)
  /\ IF q = <<>> THEN s.head[l] = NoItem
     ELSE /\ q[1] = s.head[l] /\ q[Len(q)] = s.tail[l]
          /\ s.behind[q[Len(q)]] = NoItem
          /\ \A i \in 1..(Len(q) - 1) :
               s.behind[q[i]] = q[i + 1] /\ s.before[q[i + 1]] = q[i]

\* C26: on a list reachable by List operations every call of
\* [Symbol.iterator], entries, keys or values ends after yielding exactly
\* length elements, one per item from head to tail: the pair of the item and
\* its value, the item, or the value; nothing on an empty list; and every
\* call starts from the head the list has then.
C26_TraversalYieldsList ==
  LET q == keysAll(St, list).ret
      n == length[list]
  IN  /\ keysAll(St, list) = Returned(q, 0)
      /\ InOrder(St, list, q)
      /\ n = 0 => q = <<>>
      /\ valuesAll(St, list) = Returned([i \in 1..n |-> value[q[i]]], 0)
      /\ iterator(St, list)
           = Returned([i \in 1..n |-> <<q[i], value[q[i]]>>], 0)
      /\ entries(St, list) = iterator(St, list)

\* a traversal after the head changed: it starts from the new head
C26_Witness ==
  /\ op = "entries" /\ ~error /\ ~hang
  /\ head[list] = 2 /\ length[list] = 2
  /\ entries(St, list).ret = <<<<2, 2>>, <<3, 1>>>>
  /\ keysAll(St, list).ret = <<2, 3>>
  /\ valuesAll(St, list).ret = <<2, 1>>

\* the values of vs that are in the set keep, in order
RECURSIVE Selected(_, _)
Selected(vs, keep) ==
  IF vs = <<>> THEN <<>>
  ELSE (IF Head(vs) \in keep THEN <<Head(vs)>> ELSE <<>>)
         \o Selected(Tail(vs), keep)

\* C27: filter(p) returns a new list of exactly the values for which p
\* returned truthy, in source order; map(f) returns a new list of the same
\* length whose i-th value is f of the source's i-th value; the callback is
\* called once per item from head to tail (never on an empty list); and the
\* source's head, tail, length and links are as before when the callback
\* does not change the list.
C27_FilterMapMakeLists ==
  [][/\ op' = "filter"
        => \A cb \in Preds :
             FilterCall(cb)
               => /\ ~hang'
                  /\ ListValues(St, made)'
                       = Selected(ListValues(St, list), cb)
                  /\ length'[made] = Len(Selected(ListValues(St, list), cb))
                  /\ filter(St, list, cb, made).called = Items(St, list)
                  /\ AllNew(made) /\ Untouched({list, other})
     /\ op' = "map"
        => \A cb \in Maps :
             MapCall(cb)
               => /\ ~hang'
                  /\ ListValues(St, made)'
                       = [i \in 1..length[list] |->
                            cb[ListValues(St, list)[i]]]
                  /\ length'[made] = length[list]
                  /\ map(St, list, cb, made).called = Items(St, list)
                  /\ AllNew(made) /\ Untouched({list, other})
    ]_vars

C27_Witness ==
  /\ op = "filter" /\ ~hang
  /\ ListValues(St, list) = <<2, 1, 2>>
  /\ ListValues(St, made) = <<2, 2>>
  /\ length[made] = 2
  /\ filter(St, list, {1}, again).called = Items(St, list)

C27_WitnessMap ==
  /\ op = "map" /\ ~hang
  /\ ListValues(St, list) = <<2, 1, 2>>
  /\ ListValues(St, made) = <<1, 2, 1>>

\* C28: unlink() or unlink(true) called on an item that is in the list (the
\* head, a middle item, the tail or the only item) updates the list as the
\* cleanup callback has it: head becomes the item's former successor if the
\* item was the head, tail its former predecessor if it was the tail, and
\* length goes down by 1, in the detaching mode too; all list invariants
\* hold afterwards.
C28_UnlinkInListCleansUp ==
  [][op' = "unlink"
       => \A n \in Reachable(St, list), unchain \in BOOLEAN :
            Unlink(n, unchain)
              => /\ head'[list] = IF head[list] = n THEN behind[n]
                                  ELSE head[list]
                 /\ tail'[list] = IF tail[list] = n THEN before[n]
                                  ELSE tail[list]
                 /\ length'[list] = length[list] - 1
                 /\ Items(St, list)'
                      = SelectSeq(Items(St, list), LAMBDA m : m # n)
                 /\ ListInvariants(St, list)'
                 /\ ~hang'
    ]_vars

\* the head of a list of three was unlinked in the detaching mode
C28_Witness ==
  /\ op = "unlink" /\ ~hang
  /\ alloc = 3 /\ length[list] = 2
  /\ head[list] = 2 /\ tail[list] = 3
  /\ before[1] = NoItem /\ behind[1] = NoItem /\ before[2] = NoItem
  /\ unlinkCleanup[1] = NoCleanup /\ cleanups[1] = 1

\* the only item of the list was unlinked
C28_WitnessSole ==
  /\ op = "unlink" /\ ~hang
  /\ alloc = 1 /\ length[list] = 0
  /\ head[list] = NoItem /\ tail[list] = NoItem

\* C29: after a.insertBehind(item) an item that had no cleanup callback
\* carries the callback of a (which may be none), an item that had one keeps
\* its own, and the callback of a is as before.
C29_InsertBehindInheritsCallback ==
  [][op' = "insertBehind"
       => \A a \in 1..alloc, item \in 1..alloc :
            InsertBehindCall(a, item)
              => /\ unlinkCleanup'[item]
                      = IF unlinkCleanup[item] = NoCleanup
                        THEN unlinkCleanup[a]
                        ELSE unlinkCleanup[item]
                 /\ unlinkCleanup'[a] = unlinkCleanup[a]
    ]_vars

\* an item of the caller's was put before the head of the list, which kept
\* the callback of the list, and another behind it, which took that callback
C29_Witness ==
  /\ op = "insertBehind" /\ ~hang
  /\ alloc = 3
  /\ head[list] = 1 /\ before[1] = 2 /\ behind[2] = 1
  /\ unlinkCleanup[1] = list /\ unlinkCleanup[2] = NoCleanup
  /\ behind[1] = 3 /\ unlinkCleanup[3] = list

\* C30: after listNode.insertBehind(item), listNode being in a list and item
\* the first of a chain of k >= 1 items none of which has a cleanup
\* callback, every item of the spliced chain carries the cleanup callback of
\* the list (so that unlinking any of them calls it).
C30_SplicedChainGetsCallback ==
  [][op' = "insertBehind"
       => \A a \in Reachable(St, list), item \in 1..alloc :
            /\ \A n \in Range(chain(St, item, <<>>)) :
                 unlinkCleanup[n] = NoCleanup
            /\ InsertBehindCall(a, item)
            => \A n \in Range(chain(St, item, <<>>)) :
                 unlinkCleanup'[n] = list
    ]_vars

\* C31: listNode.insertBehind(newNode), listNode being in the list and
\* newNode a single item outside it, leaves length, head and tail of the
\* list as they were while one more item is reachable from head: a length
\* that counted the reachable items is afterwards one less than their
\* number, and when listNode was the tail, tail is no longer the last item
\* of the chain (newNode is behind it, and is the last when nothing was
\* behind listNode).
C31_ManualSpliceUnseenByList ==
  [][op' = "insertBehind"
       => \A a \in Reachable(St, list), item \in 1..alloc :
            /\ behind[item] = NoItem
            /\ InsertBehindCall(a, item)
            => /\ ~hang'
               /\ length' = length /\ head' = head /\ tail' = tail
               /\ Reachable(St, list)' = Reachable(St, list) \cup {item}
               /\ item \notin Reachable(St, list)
               /\ LengthCounts(St, list) =>
                    length'[list] = Cardinality(Reachable(St, list)') - 1
               /\ a = tail[list] => behind'[tail'[list]] = item
               /\ behind[a] = NoItem => behind'[item] = NoItem
    ]_vars

\* an item of the caller's was spliced behind the tail of a list of two:
\* length is still 2 with three items reachable, and tail is not the last
C31_Witness ==
  /\ op = "insertBehind" /\ ~hang
  /\ length[list] = 2 /\ head[list] = 1 /\ tail[list] = 2
  /\ behind[2] = 3 /\ behind[3] = NoItem /\ before[3] = 2
  /\ Cardinality(Reachable(St, list)) = 3

\* C32: clear() with unchain = false sets head and tail of the list to
\* undefined and its length to 0 and changes nothing else: every item keeps
\* its before, behind, value and cleanup callback, no callback is called, and
\* the items that were in the list are still linked to each other as they
\* were.
C32_ClearKeepsLinks ==
  [][op' = "clear" /\ ClearCall(FALSE) =>
       /\ ~hang'
       /\ head'[list] = NoItem /\ tail'[list] = NoItem /\ length'[list] = 0
       /\ behind' = behind /\ before' = before /\ value' = value
       /\ unlinkCleanup' = unlinkCleanup /\ cleanups' = cleanups
       /\ alloc' = alloc
       /\ \A l \in Lists \ {list} :
            head'[l] = head[l] /\ tail'[l] = tail[l] /\ length'[l] = length[l]
       /\ \A i \in 1..(Len(Items(St, list)) - 1) :
            /\ behind'[Items(St, list)[i]] = Items(St, list)[i + 1]
            /\ before'[Items(St, list)[i + 1]] = Items(St, list)[i]]_vars

\* a list of three was cleared: its items are still linked in a chain and
\* still carry the callback of the list
C32_Witness ==
  /\ op = "clear" /\ ~hang
  /\ head[list] = NoItem /\ tail[list] = NoItem /\ length[list] = 0
  /\ behind[1] = 2 /\ behind[2] = 3 /\ before[3] = 2 /\ before[2] = 1
  /\ unlinkCleanup[2] = list

\* an item that was taken out of its list: unlink cleared its callback
Removed(s, n) == n \in 1..s.alloc /\ s.unlinkCleanup[n] = NoCleanup

\* the last of the items before position i of q that does not hold v, NoItem
\* when there is none
LastKeptBefore(s, q, i, v) ==
  LET kept == {j \in 1..(i - 1) : s.value[q[j]] # v}
  IN  IF kept = {} THEN NoItem
      ELSE q[CHOOSE j \in kept : \A k \in kept : k <= j]

\* C33: an item removed by pop, shift, remove or unlink() has after the call
\* the before and behind it had before it, one removed by
\* removeAllOccurrences(v) has the behind it had and as before the item that
\* preceded it when it was unlinked (the nearest earlier item not holding v),
\* one removed by unlink(true) has before and behind undefined; and no later
\* call on the list changes before or behind of a removed item, which is not
\* reachable from head.
C33_RemovedItemKeepsLinks ==
  [][/\ \A n \in 1..alloc :
          Removed(St, n) =>
            /\ before'[n] = before[n] /\ behind'[n] = behind[n]
            /\ unlinkCleanup'[n] = NoCleanup
            /\ n \notin Reachable(St, list)
     /\ op' \in {"pop", "shift", "remove"} =>
          \A n \in 1..alloc :
            ~Removed(St, n) /\ unlinkCleanup'[n] = NoCleanup =>
              before'[n] = before[n] /\ behind'[n] = behind[n]
     /\ op' = "unlink" =>
          \A n \in Reachable(St, list) :
            /\ Unlink(n, FALSE) =>
                 /\ unlinkCleanup'[n] = NoCleanup
                 /\ before'[n] = before[n] /\ behind'[n] = behind[n]
            /\ Unlink(n, TRUE) =>
                 /\ unlinkCleanup'[n] = NoCleanup
                 /\ before'[n] = NoItem /\ behind'[n] = NoItem
     /\ op' = "removeAllOccurrences" =>
          \A v \in Values :
            RemoveAllOccurrencesCall(v) =>
              LET q == Items(St, list)
              IN  \A i \in DOMAIN q :
                    value[q[i]] = v =>
                      /\ unlinkCleanup'[q[i]] = NoCleanup
                      /\ behind'[q[i]] = behind[q[i]]
                      /\ before'[q[i]] = LastKeptBefore(St, q, i, v)]_vars

\* an item popped from a list of two still points at its predecessor after
\* another item was pushed behind that predecessor
C33_Witness ==
  /\ op = "push" /\ alloc = 3
  /\ Removed(St, 2) /\ before[2] = 1 /\ behind[2] = NoItem
  /\ behind[1] = 3 /\ before[3] = 1 /\ tail[list] = 3 /\ length[list] = 2

\* the second of two equal neighbours removed by one removeAllOccurrences has
\* as before the item that preceded both; a later pop left it so
C33_WitnessSnapshot ==
  /\ op = "pop" /\ alloc = 3
  /\ value[2] = value[3] /\ value[1] # value[2]
  /\ Removed(St, 1) /\ Removed(St, 2) /\ Removed(St, 3)
  /\ before[2] = 1 /\ behind[2] = 3 /\ before[3] = 1 /\ behind[3] = NoItem
  /\ head[list] = NoItem /\ length[list] = 0

\* an item unlinked with unchain from between two others has no links
C33_WitnessUnchained ==
  /\ op = "unlink" /\ length[list] = 2
  /\ Removed(St, 2) /\ before[2] = NoItem /\ behind[2] = NoItem
  /\ behind[1] = 3 /\ before[3] = 1

\* C34: unlink() on an item that was removed from the list earlier (its
\* callback is cleared), whatever calls on the list came between, leaves
\* head, tail and length of the list and the sequence of items reachable
\* from head as they were.
C34_SecondUnlinkIsNoOp ==
  [][op' = "unlink"
       => \A n \in 1..alloc :
            Removed(St, n) /\ Unlink(n, FALSE)
              => /\ head'[list] = head[list]
                 /\ tail'[list] = tail[list]
                 /\ length'[list] = length[list]
                 /\ Items(St, list)' = Items(St, list)]_vars

\* C35: unshift(v1, ..., vk) with k > 1 on a list with values L yields
\* vk, ..., v1 followed by L: the new items stand before the former items
\* in the reverse of the order of the arguments, the item of vk is the head,
\* length grows by k and is returned.
C35_UnshiftReversesArguments ==
  [][op' = "unshift"
       => \A vs \in ArgSeqs :
            Len(vs) > 1 /\ UnshiftCall(vs) =>
              /\ ListValues(St, list)' = Reverse(vs) \o ListValues(St, list)
              /\ Items(St, list)'
                   = [i \in 1..Len(vs) |-> alloc + Len(vs) + 1 - i]
                       \o Items(St, list)
              /\ \A i \in 1..Len(vs) : value'[alloc + i] = vs[i]
              /\ head'[list] = alloc + Len(vs)
              /\ length'[list] = length[list] + Len(vs)
              /\ unshift(St, list, vs).ret = length'[list]]_vars

\* unshift(1, 2) on a list holding 1: the list holds 2, 1, 1 and the item
\* made last is the head
C35_Witness ==
  /\ op = "unshift" /\ alloc = 3 /\ length[list] = 3
  /\ head[list] = 3 /\ behind[3] = 2 /\ behind[2] = 1 /\ tail[list] = 1
  /\ value[3] = 2 /\ value[2] = 1 /\ value[1] = 1

\* the items of q that are not in the set gone
Remaining(q, gone) ==
  LET F[i \in 0..Len(q)] ==
        IF i = 0 THEN <<>>
        ELSE IF q[i] \in gone THEN F[i - 1] ELSE Append(F[i - 1], q[i])
  IN  F[Len(q)]

\* what a traversal in which only items just yielded were removed has
\* yielded: the items the list had at its start, in order, up to current
WalkInOrder ==
  /\ generator # "none" =>
       /\ yielded # <<>>
       /\ genCurrent = Last(yielded)
       /\ Len(yielded) <= Len(atStart)
       /\ yielded = SubSeq(atStart, 1, Len(yielded))
  /\ op = "return" =>
       /\ generator = "none"
       /\ yielded = atStart
       /\ ListInvariants(St, list)
       /\ Items(St, list)
            = Remaining(atStart, {n \in Range(atStart) : Removed(St, n)})

\* C36: in a traversal with keys() or entries() whose loop body removes,
\* with unlink(), some of the items just yielded, the generator yields the
\* items the list had when the traversal began, each once and in order, so
\* every item that followed a removed one; it returns after the last; and
\* then the list invariants hold, the list holding the items not removed.
C36_TraversalSurvivesRemoval ==
  /\ []WalkInOrder
  /\ (generator # "none") ~> (op = "return")

\* a traversal of a list of three in which the first and the second item
\* were removed when they were yielded has yielded all three and returned
C36_Witness ==
  /\ op = "return" /\ generator = "none"
  /\ yielded = <<1, 2, 3>>
  /\ Removed(St, 1) /\ Removed(St, 2) /\ ~Removed(St, 3)
  /\ behind[1] = 2 /\ behind[2] = 3
  /\ head[list] = 3 /\ tail[list] = 3 /\ length[list] = 1

TypeOK ==
  /\ alloc \in 0..Cardinality(Nodes)
  /\ hang \in BOOLEAN
  /\ error \in BOOLEAN
  /\ generator \in {"none", "keys", "entries"}
  /\ genCurrent \in 0..alloc
  /\ yielded \in Seq(1..alloc) /\ atStart \in Seq(1..alloc)
  /\ \A n \in Nodes : behind[n] \in 0..alloc /\ before[n] \in 0..alloc
  /\ \A l \in Lists : head[l] \in 0..alloc /\ tail[l] \in 0..alloc

====
